---- MODULE Spec2Model ----
(***************************************************************************)
(* Model of src/main.py: the /speech-to-calendar handler process_audio and *)
(* the helpers it calls (get_nearest_color_id, get_access_token,           *)
(* add_event, call_gpt).                                                   *)
(*                                                                         *)
(* Representation.                                                         *)
(*  - A Python str that the code indexes (a colour) is a sequence of       *)
(*    one-character strings; other strs are TLA+ strings.                  *)
(*  - A JSON value of the extractor's record is [kind, val] with kind in   *)
(*    "absent" (key missing), "null", "str".                               *)
(*  - An ISO-8601 datetime string is [fmt, wall, off]: fmt "naive" (no     *)
(*    offset), "aware" (offset off, in seconds), "bad" (not ISO-8601) or   *)
(*    "empty" (the empty string); wall is the wall-clock reading in        *)
(*    seconds since 2024-01-01T00:00:00.                                   *)
(*  - An instant is a number of seconds since 2024-01-01T00:00:00Z.        *)
(***************************************************************************)
EXTENDS Integers, Sequences, FiniteSets, TLC

VARIABLES
    pc,             \* position of the request in process_audio
    authorization,  \* the Authorization header of the request
    content_type,   \* file.content_type of the upload
    now,            \* the instant at which the request is processed
    calls,          \* collaborator calls made so far, in order
    transcoded,     \* whether the audio went through AudioSegment
    text,           \* the transcript
    content,        \* the extractor's message content, a sequence of lines
    gpt_data,       \* what call_gpt returned
    dt,             \* gpt_data.get("datetime")
    access_token,   \* what get_access_token returned
    summary,        \* local of process_audio
    color_hex,      \* local of process_audio
    start_dt,       \* local of process_audio
    sent,           \* event payloads posted to EVENTS_URL, in order
    event_result,   \* what add_event returned
    response,       \* what the caller receives
    resolverIn,     \* argument of a direct get_nearest_color_id call
    resolverOut     \* its result

vars == <<pc, authorization, content_type, now, calls, transcoded, text,
          content, gpt_data, dt, access_token, summary, color_hex, start_dt,
          sent, event_result, response, resolverIn, resolverOut>>

(***************************************************************************)
(* Bounds of the model.                                                    *)
(***************************************************************************)
\* how many of ColorSamples the extractor may return
NumColors == 9
\* how many of WallSamples the extractor may return
NumWalls == 4
\* how many of NowSamples a request may be processed at
NumNows == 2
\* how many of ByteSamples make up the colours given to the resolver directly
NumBytes == 5

Min(a, b) == IF a < b THEN a ELSE b

Prefix(s, n) == SubSeq(s, 1, Min(n, Len(s)))

Range(s) == {s[i] : i \in 1..Len(s)}

(***************************************************************************)
(* Configuration                                                           *)
(***************************************************************************)
AUTH_PASSWORD == "defaultpass"

\* src/main.py:33-37, in definition order
COLOR_HEX_MAP_Mut ==
    << [cid |-> "0",  hex |-> <<"#","a","4","b","d","f","c">>],
       [cid |-> "1",  hex |-> <<"#","7","a","e","7","b","f">>],
       [cid |-> "2",  hex |-> <<"#","d","b","a","d","f","f">>],
       [cid |-> "3",  hex |-> <<"#","f","f","8","8","7","c">>],
       [cid |-> "4",  hex |-> <<"#","f","b","d","7","5","b">>],
       [cid |-> "5",  hex |-> <<"#","f","f","b","8","7","8">>],
       [cid |-> "6",  hex |-> <<"#","4","6","d","6","d","b">>],
       [cid |-> "7",  hex |-> <<"#","e","1","e","1","e","1">>],
       [cid |-> "8",  hex |-> <<"#","5","4","8","4","e","d">>],
       [cid |-> "9",  hex |-> <<"#","5","1","b","7","4","9">>],
       [cid |-> "10", hex |-> <<"#","d","c","2","1","2","7">>] >>

COLOR_HEX_MAP ==
    << [cid |-> "1",  hex |-> <<"#","a","4","b","d","f","c">>],
       [cid |-> "2",  hex |-> <<"#","7","a","e","7","b","f">>],
       [cid |-> "3",  hex |-> <<"#","d","b","a","d","f","f">>],
       [cid |-> "4",  hex |-> <<"#","f","f","8","8","7","c">>],
       [cid |-> "5",  hex |-> <<"#","f","b","d","7","5","b">>],
       [cid |-> "6",  hex |-> <<"#","f","f","b","8","7","8">>],
       [cid |-> "7",  hex |-> <<"#","4","6","d","6","d","b">>],
       [cid |-> "8",  hex |-> <<"#","e","1","e","1","e","1">>],
       [cid |-> "9",  hex |-> <<"#","5","4","8","4","e","d">>],
       [cid |-> "10", hex |-> <<"#","5","1","b","7","4","9">>],
       [cid |-> "11", hex |-> <<"#","d","c","2","1","2","7">>] >>

\* the literal "#008080" of lines 114 and 193
TEAL == <<"#","0","0","8","0","8","0">>

ALLOWED_TYPES == {"audio/wav", "audio/x-wav", "audio/flac", "audio/mpeg", "audio/mp3"}

WAV_TYPES == {"audio/wav", "audio/x-wav"}

(***************************************************************************)
(* get_nearest_color_id                                                    *)
(***************************************************************************)
HexDigits ==
    [c \in {"0","1","2","3","4","5","6","7","8","9",
            "a","b","c","d","e","f","A","B","C","D","E","F"} |->
        CASE c = "0" -> 0  [] c = "1" -> 1  [] c = "2" -> 2  [] c = "3" -> 3
          [] c = "4" -> 4  [] c = "5" -> 5  [] c = "6" -> 6  [] c = "7" -> 7
          [] c = "8" -> 8  [] c = "9" -> 9
          [] c \in {"a","A"} -> 10 [] c \in {"b","B"} -> 11
          [] c \in {"c","C"} -> 12 [] c \in {"d","D"} -> 13
          [] c \in {"e","E"} -> 14 [] c \in {"f","F"} -> 15]

IsHex(c) == c \in DOMAIN HexDigits

\* int(s, 16) for a slice s of at most two characters: [ok, v]; ok = FALSE
\* is ValueError. int() accepts surrounding blanks and one sign.
IntBase16(s) ==
    CASE Len(s) = 1 /\ IsHex(s[1]) -> [ok |-> TRUE, v |-> HexDigits[s[1]]]
      [] Len(s) = 2 /\ IsHex(s[1]) /\ IsHex(s[2]) ->
            [ok |-> TRUE, v |-> 16 * HexDigits[s[1]] + HexDigits[s[2]]]
      [] Len(s) = 2 /\ s[1] \in {"+", " "} /\ IsHex(s[2]) ->
            [ok |-> TRUE, v |-> HexDigits[s[2]]]
      [] Len(s) = 2 /\ s[1] = "-" /\ IsHex(s[2]) ->
            [ok |-> TRUE, v |-> 0 - HexDigits[s[2]]]
      [] Len(s) = 2 /\ IsHex(s[1]) /\ s[2] = " " ->
            [ok |-> TRUE, v |-> HexDigits[s[1]]]
      [] OTHER -> [ok |-> FALSE, v |-> 0]

RECURSIVE LStripHash(_)
\* hex_color.lstrip("#"): every leading "#" goes
LStripHash(s) ==
    IF Len(s) > 0 /\ s[1] = "#" THEN LStripHash(Tail(s)) ELSE s

\* s[i:i+2] for the 0-based i of the code
Slice2(s, i) == SubSeq(s, i + 1, Min(i + 2, Len(s)))

\* hex_to_rgb: [ok, rgb]; ok = FALSE is the ValueError of int()
hex_to_rgb(hex_color) ==
    LET h == LStripHash(hex_color)
        r == IntBase16(Slice2(h, 0))
        g == IntBase16(Slice2(h, 2))
        b == IntBase16(Slice2(h, 4))
    IN  IF r.ok /\ g.ok /\ b.ok
        THEN [ok |-> TRUE, rgb |-> <<r.v, g.v, b.v>>]
        ELSE [ok |-> FALSE, rgb |-> <<0, 0, 0>>]

\* The radicand of line 89. sqrt is strictly increasing and the radicands
\* are integers below 2^18, whose square roots are distinct doubles, so
\* the comparison of line 90 orders the distances as it orders these.
DistSq(p, q) ==
    (p[1] - q[1]) * (p[1] - q[1]) + (p[2] - q[2]) * (p[2] - q[2])
        + (p[3] - q[3]) * (p[3] - q[3])

\* min_dist is [inf |-> TRUE, d |-> 0] for float("inf")
CloserMut(dist, min_dist) == min_dist.inf \/ dist <= min_dist.d

\* dist < min_dist, line 90
Closer(dist, min_dist) == min_dist.inf \/ dist < min_dist.d

RECURSIVE NearestFrom(_, _, _, _)
\* the loop of lines 87-92 from the i-th palette entry on
NearestFrom(target_rgb, i, min_dist, best_id) ==
    IF i > Len(COLOR_HEX_MAP) THEN best_id
    ELSE LET dist == DistSq(target_rgb, hex_to_rgb(COLOR_HEX_MAP[i].hex).rgb)
         IN  IF Closer(dist, min_dist)
             THEN NearestFrom(target_rgb, i + 1, [inf |-> FALSE, d |-> dist],
                              COLOR_HEX_MAP[i].cid)
             ELSE NearestFrom(target_rgb, i + 1, min_dist, best_id)

\* [raised, val]: raised = TRUE is the ValueError of hex_to_rgb(hex_input)
get_nearest_color_id(hex_input) ==
    LET target == hex_to_rgb(hex_input)
    IN  IF ~target.ok THEN [raised |-> TRUE, val |-> "ValueError"]
        ELSE [raised |-> FALSE,
              val |-> NearestFrom(target.rgb, 1, [inf |-> TRUE, d |-> 0], "1")]

(***************************************************************************)
(* Datetimes                                                               *)
(***************************************************************************)
\* 2024-03-10T03:00:00 and 2024-11-03T01:00:00 as wall-clock seconds of 2024:
\* with is_dst=False, the default of localize, the skipped hour and the
\* repeated hour both get standard time.
DST_FROM == 69 * 86400 + 3 * 3600

DST_UNTIL == 307 * 86400 + 1 * 3600

\* utcoffset of America/New_York for a wall-clock reading of 2024, seconds
NYOffset(wall) ==
    IF DST_FROM <= wall /\ wall < DST_UNTIL THEN 0 - 4 * 3600 ELSE 0 - 5 * 3600

\* datetime.datetime.fromisoformat: [ok, aware, wall, off]; ok = FALSE is
\* ValueError
fromisoformat(s) ==
    CASE s.fmt = "naive" -> [ok |-> TRUE, aware |-> FALSE, wall |-> s.wall, off |-> 0]
      [] s.fmt = "aware" -> [ok |-> TRUE, aware |-> TRUE, wall |-> s.wall, off |-> s.off]
      [] OTHER -> [ok |-> FALSE, aware |-> FALSE, wall |-> 0, off |-> 0]

localizeMut(d) ==
    IF d.aware THEN [ok |-> FALSE, aware |-> FALSE, wall |-> 0, off |-> 0]
    ELSE [ok |-> TRUE, aware |-> TRUE, wall |-> d.wall, off |-> 0 - 5 * 3600]

\* EST.localize: ValueError ("Not naive datetime") when tzinfo is set
localize(d) ==
    IF d.aware THEN [ok |-> FALSE, aware |-> FALSE, wall |-> 0, off |-> 0]
    ELSE [ok |-> TRUE, aware |-> TRUE, wall |-> d.wall, off |-> NYOffset(d.wall)]

\* datetime.isoformat: the offset is written exactly when tzinfo is set
isoformat(d) ==
    [fmt |-> IF d.aware THEN "aware" ELSE "naive", wall |-> d.wall,
     off |-> IF d.aware THEN d.off ELSE 0]

\* the instant an ISO string with an offset denotes
InstantOf(iso) == iso.wall - iso.off

(***************************************************************************)
(* Values of the extractor's record                                        *)
(***************************************************************************)
EmptyIso == [fmt |-> "empty", wall |-> 0, off |-> 0]

JStr(v) == [kind |-> "str", val |-> v]

\* the samples the extractor's answers are drawn from
ColorSamples ==
    << <<"#","0","0","0","0","f","f">>,
       <<"0","0","8","0","8","0">>,
       <<"#","8","e","5","c","7","d">>,
       <<"#","1","2">>,
       <<"#","F","F","F","F","F","F">>,
       <<"#","a","7","8","5","a","a">>,
       <<"#","g","g","g","g","g","g">>,
       <<"#","#","0","0","a","7","9","3">>,
       <<"-","1","+","2"," ","3">>,
       <<"#","0","0","9","4","a","e">>,
       <<"#","f","f","0","0","0","0">> >>

\* 2024-01-01T14:59:59, 2024-01-01T15:00:00, 2024-01-02T09:00:00,
\* 2024-07-01T12:00:00, 2024-07-01T12:00:01
WallSamples == <<53999, 54000, 118800, 15768000, 15768001>>

\* 2024-01-01T20:00:00Z (15:00:00 in New York), 2024-07-01T16:00:00Z
\* (12:00:00 in New York), 2024-01-02T14:00:00Z
NowSamples == <<72000, 15782400, 136800>>

TextSamples == {"lunch with sam tomorrow at noon in blue"}

Titles ==
    {[kind |-> "absent", val |-> ""], [kind |-> "null", val |-> ""],
     JStr(""), JStr("lunch with sam")}

Colors ==
    {[kind |-> "absent", val |-> <<>>], [kind |-> "null", val |-> <<>>],
     JStr(<<>>)} \cup {JStr(c) : c \in Range(Prefix(ColorSamples, NumColors))}

Datetimes ==
    {[kind |-> "absent", val |-> EmptyIso], [kind |-> "null", val |-> EmptyIso],
     JStr(EmptyIso), JStr([fmt |-> "bad", wall |-> 0, off |-> 0])}
    \cup {JStr([fmt |-> "naive", wall |-> w, off |-> 0]) :
             w \in Range(Prefix(WallSamples, NumWalls))}
    \cup {JStr([fmt |-> "aware", wall |-> w, off |-> 0 - 5 * 3600]) :
             w \in Range(Prefix(WallSamples, NumWalls))}

NoFields ==
    [title |-> [kind |-> "absent", val |-> ""],
     color |-> [kind |-> "absent", val |-> <<>>],
     datetime |-> [kind |-> "absent", val |-> EmptyIso]]

\* what json.loads can return: a dict of the three keys, or something else
Dicts == [title : Titles, color : Colors, datetime : Datetimes]

NoData == [shape |-> "none", fields |-> NoFields]

\* the lines of a message content: a code fence, a JSON object, a JSON
\* array, a JSON string, number or null, or text that is not JSON
FenceLine == [t |-> "fence", fields |-> NoFields]

ObjLine(d) == [t |-> "obj", fields |-> d]

Contents ==
    {<<ObjLine(d)>> : d \in Dicts}
    \cup {<<FenceLine, ObjLine(d), FenceLine>> : d \in Dicts}
    \cup {<<[t |-> "arr", fields |-> NoFields]>>,
          <<[t |-> "scalar", fields |-> NoFields]>>,
          <<[t |-> "text", fields |-> NoFields]>>,
          <<FenceLine, [t |-> "text", fields |-> NoFields], FenceLine>>}

\* x.get(key), then truthiness: absent and null give None, and "" is falsy
Falsy(v, empty) == v.kind # "str" \/ v.val = empty

\* v or default
OrElse(v, empty, default) == IF Falsy(v, empty) THEN default ELSE v.val

(***************************************************************************)
(* Responses                                                               *)
(***************************************************************************)
NoResponse ==
    [status |-> 0, keys |-> {}, text |-> "", error |-> "", parsed |-> NoData,
     calendar_event |-> "", detail |-> ""]

\* raise HTTPException(status_code=..., detail=...)
HTTPException(status_code, detail) ==
    [NoResponse EXCEPT !.status = status_code, !.detail = detail]

\* an exception that leaves process_audio: the framework answers 500
Unhandled(exception) == [NoResponse EXCEPT !.status = 500, !.detail = exception]

TextErrorMut(t, e) ==
    [NoResponse EXCEPT !.status = 200, !.keys = {"error"}, !.error = e]

\* return {"text": ..., "error": ...}
TextError(t, e) ==
    [NoResponse EXCEPT !.status = 200, !.keys = {"text", "error"},
                       !.text = t, !.error = e]

TextParsedEventMut(t, parsed, event) ==
    [NoResponse EXCEPT
        !.status = 200,
        !.keys = {"text", "parsed", "calendar_event"},
        !.text = t,
        !.parsed = [parsed EXCEPT !.fields.title =
                       IF Falsy(@, "") THEN JStr("No Title") ELSE @],
        !.calendar_event = event]

\* return {"text": text, "parsed": gpt_data, "calendar_event": event_result}
TextParsedEvent(t, parsed, event) ==
    [NoResponse EXCEPT !.status = 200,
                       !.keys = {"text", "parsed", "calendar_event"},
                       !.text = t, !.parsed = parsed,
                       !.calendar_event = event]

(***************************************************************************)
(* The request                                                             *)
(***************************************************************************)
AuthorizationSamples == {AUTH_PASSWORD, "wrongpass", ""}

ContentTypeSamples == ALLOWED_TYPES \cup {"video/mp4", "audio/ogg"}

NoDatetime == [ok |-> FALSE, aware |-> FALSE, wall |-> 0, off |-> 0]

Idle ==
    /\ calls = <<>>
    /\ transcoded = FALSE
    /\ text = ""
    /\ content = <<>>
    /\ gpt_data = NoData
    /\ dt = [kind |-> "absent", val |-> EmptyIso]
    /\ access_token = ""
    /\ summary = ""
    /\ color_hex = <<>>
    /\ start_dt = NoDatetime
    /\ sent = <<>>
    /\ event_result = ""
    /\ response = NoResponse

Init ==
    /\ pc = "Received"
    /\ authorization \in AuthorizationSamples
    /\ content_type \in ContentTypeSamples
    /\ now \in Range(Prefix(NowSamples, NumNows))
    /\ Idle
    /\ resolverIn = <<>>
    /\ resolverOut = <<>>

\* the variables of the request that a step of process_audio never writes
Request == <<authorization, content_type, now, resolverIn, resolverOut>>

Finish(r) == pc' = "done" /\ response' = r

AuthorizedMut(a) == TRUE

\* line 159
Authorized(a) == a = AUTH_PASSWORD

\* lines 159-160
CheckAuthorization ==
    /\ pc = "Received"
    /\ IF ~Authorized(authorization)
       THEN Finish(HTTPException(401, "Unauthorized"))
       ELSE pc' = "Authorized" /\ UNCHANGED response
    /\ UNCHANGED <<Request, event_result, calls, transcoded, text, content,
                   gpt_data, dt,
                   access_token, summary, color_hex, start_dt, sent>>

TypeAllowedMut(t) == t \in ALLOWED_TYPES \cup {"audio/ogg"}

\* line 162
TypeAllowed(t) == t \in ALLOWED_TYPES

\* lines 162-163
CheckContentType ==
    /\ pc = "Authorized"
    /\ IF ~TypeAllowed(content_type)
       THEN Finish(HTTPException(400, "Unsupported file type"))
       ELSE pc' = "AudioValidated" /\ UNCHANGED response
    /\ UNCHANGED <<Request, event_result, calls, transcoded, text, content,
                   gpt_data, dt,
                   access_token, summary, color_hex, start_dt, sent>>

NeedsTranscodingMut(t) == t # "audio/wav"

\* line 167
NeedsTranscoding(t) == t \notin WAV_TYPES

\* lines 165-178: read the upload, transcode it unless it is wav, and load
\* it into the recognizer; the codec or the wav reader may reject the bytes
LoadAudio ==
    /\ pc = "AudioValidated"
    /\ transcoded' = NeedsTranscoding(content_type)
    /\ calls' = calls \o <<"read">>
                  \o (IF NeedsTranscoding(content_type) THEN <<"transcode">> ELSE <<>>)
    /\ \E decoded \in BOOLEAN :
          IF decoded THEN pc' = "AudioLoaded" /\ UNCHANGED response
          ELSE Finish(Unhandled(IF NeedsTranscoding(content_type)
                                THEN "CouldntDecodeError" ELSE "ValueError"))
    /\ UNCHANGED <<Request, event_result, text, content, gpt_data, dt,
                   access_token, summary,
                   color_hex, start_dt, sent>>

TranscribeMut ==
    /\ pc = "AudioLoaded"
    /\ calls' = Append(calls, "transcribe")
    /\ \/ \E t \in TextSamples :
             /\ text' = t
             /\ pc' = "Transcribed"
             /\ UNCHANGED response
       \/ /\ Finish(TextError("", "Could not understand audio"))
          /\ UNCHANGED text
       \/ /\ Finish(Unhandled("RequestError"))
          /\ UNCHANGED text
    /\ UNCHANGED <<Request, event_result, transcoded, content, gpt_data, dt,
                   access_token, summary, color_hex, start_dt, sent>>

\* lines 179-184
Transcribe ==
    /\ pc = "AudioLoaded"
    /\ calls' = Append(calls, "transcribe")
    /\ \/ \E t \in TextSamples :
             /\ text' = t
             /\ pc' = "Transcribed"
             /\ UNCHANGED response
       \/ /\ Finish(TextError("", "Could not understand audio"))
          /\ UNCHANGED text
       \/ /\ Finish(TextError("", "Speech Recognition service error"))
          /\ UNCHANGED text
    /\ UNCHANGED <<Request, event_result, transcoded, content, gpt_data, dt,
                   access_token,
                   summary, color_hex, start_dt, sent>>

\* content.startswith("```")
StartsWithFence(c) == Len(c) > 0 /\ c[1].t = "fence"

\* "\n".join(content.split("\n")[1:-1])
StripFence(c) == IF Len(c) >= 2 THEN SubSeq(c, 2, Len(c) - 1) ELSE <<>>

JsonLoadsMut(c) ==
    IF Len(c) = 1 /\ c[1].t = "obj"
    THEN [ok |-> TRUE, data |-> [shape |-> "dict", fields |-> c[1].fields]]
    ELSE [ok |-> TRUE, data |-> [shape |-> "dict", fields |-> NoFields]]

\* json.loads: [ok, data]; ok = FALSE is JSONDecodeError
JsonLoads(c) ==
    CASE Len(c) = 1 /\ c[1].t = "obj" ->
            [ok |-> TRUE, data |-> [shape |-> "dict", fields |-> c[1].fields]]
      [] Len(c) = 1 /\ c[1].t = "arr" ->
            [ok |-> TRUE, data |-> [shape |-> "list", fields |-> NoFields]]
      [] Len(c) = 1 /\ c[1].t = "scalar" ->
            [ok |-> TRUE, data |-> [shape |-> "scalar", fields |-> NoFields]]
      [] OTHER -> [ok |-> FALSE, data |-> NoData]

\* lines 144-150 for the message content raw: the local content, and what
\* line 150 returns, which parses response.choices[0].message.content
ParseContent(raw) ==
    [content |-> IF StartsWithFence(raw) THEN StripFence(raw) ELSE raw,
     result |-> JsonLoads(raw)]

\* line 186, call_gpt (lines 126-150)
CallGpt ==
    /\ pc = "Transcribed"
    /\ calls' = Append(calls, "extract")
    /\ \/ /\ Finish(Unhandled("APIError"))
          /\ UNCHANGED <<content, gpt_data>>
       \/ \E raw \in Contents :
             LET p == ParseContent(raw)
             IN  /\ content' = p.content
                 /\ IF p.result.ok
                    THEN /\ gpt_data' = p.result.data
                         /\ pc' = "Extracted"
                         /\ UNCHANGED response
                    ELSE /\ Finish(Unhandled("JSONDecodeError"))
                         /\ UNCHANGED gpt_data
    /\ UNCHANGED <<Request, event_result, transcoded, text, dt, access_token,
                   summary,
                   color_hex, start_dt, sent>>

NoDatetimeGivenMut(d) == d.kind = "absent"

\* not dt, line 188
NoDatetimeGiven(d) == Falsy(d, EmptyIso)

\* lines 187-189
CheckDatetime ==
    /\ pc = "Extracted"
    /\ IF gpt_data.shape # "dict"
       THEN Finish(Unhandled("AttributeError")) /\ UNCHANGED dt
       ELSE /\ dt' = gpt_data.fields.datetime
            /\ IF NoDatetimeGiven(gpt_data.fields.datetime)
               THEN Finish(TextError(text, "Invalid or past datetime in input"))
               ELSE pc' = "EventValidated" /\ UNCHANGED response
    /\ UNCHANGED <<Request, event_result, calls, transcoded, text, content,
                   gpt_data,
                   access_token, summary, color_hex, start_dt, sent>>

\* response.json().get("access_token"): the token, or None
TokenSamples == {"ya29.token", "None"}

GetAccessTokenMut ==
    /\ pc = "EventValidated"
    /\ calls' = Append(calls, "refreshAccessToken")
    /\ \/ /\ pc' = "TokenAcquired"
          /\ UNCHANGED <<access_token, response>>
       \/ \E tok \in TokenSamples :
             /\ access_token' = tok
             /\ pc' = "TokenAcquired"
             /\ UNCHANGED response
    /\ UNCHANGED <<Request, event_result, transcoded, text, content, gpt_data,
                   dt, summary, color_hex, start_dt, sent>>

\* line 191, get_access_token (lines 96-105)
GetAccessToken ==
    /\ pc = "EventValidated"
    /\ calls' = Append(calls, "refreshAccessToken")
    /\ \/ /\ Finish(Unhandled("HTTPError"))
          /\ UNCHANGED access_token
       \/ \E tok \in TokenSamples :
             /\ access_token' = tok
             /\ pc' = "TokenAcquired"
             /\ UNCHANGED response
    /\ UNCHANGED <<Request, event_result, transcoded, text, content,
                   gpt_data, dt, summary,
                   color_hex, start_dt, sent>>

SummaryOfMut(d) == OrElse(d.fields.title, "", "")

\* line 192
SummaryOf(d) == OrElse(d.fields.title, "", "No Title")

ColorOfMut(d) == OrElse(d.fields.color, <<>>, <<"#","f","f","f","f","f","f">>)

\* line 193
ColorOf(d) == OrElse(d.fields.color, <<>>, TEAL)

\* lines 192-194
ParseFields ==
    /\ pc = "TokenAcquired"
    /\ summary' = SummaryOf(gpt_data)
    /\ color_hex' = ColorOf(gpt_data)
    /\ LET parsed == fromisoformat(dt.val)
       IN  IF parsed.ok
           THEN start_dt' = parsed /\ pc' = "FieldsParsed" /\ UNCHANGED response
           ELSE Finish(Unhandled("ValueError")) /\ UNCHANGED start_dt
    /\ UNCHANGED <<Request, event_result, calls, transcoded, text, content,
                   gpt_data, dt,
                   access_token, sent>>

EventMut(s, iso_dt, color_id) ==
    [summary |-> s,
     start |-> [dateTime |-> iso_dt, timeZone |-> "America/New_York"],
     end |-> [dateTime |-> [iso_dt EXCEPT !.wall = @ + 3600],
              timeZone |-> "America/New_York"],
     colorId |-> color_id]

\* lines 116-121
Event(s, iso_dt, color_id) ==
    [summary |-> s,
     start |-> [dateTime |-> iso_dt, timeZone |-> "America/New_York"],
     end |-> [dateTime |-> iso_dt, timeZone |-> "America/New_York"],
     colorId |-> color_id]

\* color_hex or "#008080", line 114
ColorArgument(c) == IF c = <<>> THEN TEAL ELSE c

\* what the calendar backend answers to a created event
ConfirmationSamples == {"event-1"}

\* line 195, add_event (lines 107-124), and line 197
AddEvent ==
    /\ pc = "FieldsParsed"
    /\ LET localized == localize(start_dt)
           color_id == get_nearest_color_id(ColorArgument(color_hex))
       IN  IF ~localized.ok \/ color_id.raised
           THEN /\ Finish(Unhandled("ValueError"))
                /\ UNCHANGED <<calls, sent, event_result>>
           ELSE /\ calls' = Append(calls, "createEvent")
                /\ sent' = Append(sent, Event(summary, isoformat(localized),
                                              color_id.val))
                /\ \/ Finish(Unhandled("HTTPError")) /\ UNCHANGED event_result
                   \/ \E confirmation \in ConfirmationSamples :
                         /\ event_result' = confirmation
                         /\ Finish(TextParsedEvent(text, gpt_data, confirmation))
    /\ UNCHANGED <<Request, transcoded, text, content, gpt_data, dt,
                   access_token, summary, color_hex, start_dt>>

Next ==
    \/ CheckAuthorization
    \/ CheckContentType
    \/ LoadAudio
    \/ Transcribe
    \/ CallGpt
    \/ CheckDatetime
    \/ GetAccessToken
    \/ ParseFields
    \/ AddEvent

Spec == Init /\ [][Next]_vars

(***************************************************************************)
(* get_nearest_color_id on its own: the function applied, twice, to one    *)
(* input.                                                                  *)
(***************************************************************************)
ByteSamples ==
    << <<"0","0">>, <<"a","7">>, <<"9","3">>, <<"f","f">>, <<"8","0">>,
       <<"5","C">> >>

ResolverInputs ==
    {h \o r \o g \o b : h \in {<<>>, <<"#">>},
                        r \in Range(Prefix(ByteSamples, NumBytes)),
                        g \in Range(Prefix(ByteSamples, NumBytes)),
                        b \in Range(Prefix(ByteSamples, NumBytes))}
    \cup Range(ColorSamples) \cup {<<>>}

InitColor ==
    /\ pc = "resolver"
    /\ authorization = AUTH_PASSWORD
    /\ content_type = "audio/wav"
    /\ now = NowSamples[1]
    /\ Idle
    /\ resolverIn \in ResolverInputs
    /\ resolverOut = <<>>

\* a call get_nearest_color_id(resolverIn), lines 79-94
Resolve ==
    /\ pc = "resolver"
    /\ Len(resolverOut) < 2
    /\ resolverOut' = Append(resolverOut, get_nearest_color_id(resolverIn))
    /\ UNCHANGED <<pc, authorization, content_type, now, calls, transcoded,
                   text, content, gpt_data, dt, access_token, summary,
                   color_hex, start_dt, sent, event_result, response,
                   resolverIn>>

NextColor == Resolve

SpecColor == InitColor /\ [][NextColor]_vars

(***************************************************************************)
(* Properties                                                              *)
(***************************************************************************)
Called(c) == \E i \in 1..Len(calls) : calls[i] = c

Extracted == gpt_data.shape = "dict"

InvalidOrPast == TextError(text, "Invalid or past datetime in input")

\* the instant an extracted datetime denotes: its own offset if it has one,
\* the operating timezone's otherwise
ExtractedInstant(v) ==
    IF v.val.fmt = "naive" THEN v.val.wall - NYOffset(v.val.wall)
    ELSE v.val.wall - v.val.off

PastOrNow(v) ==
    v.kind = "str" /\ v.val.fmt \in {"naive", "aware"} /\ ExtractedInstant(v) <= now

\* C1: when the extractor returns a datetime that is not null and whose
\* instant in the operating timezone is before or equal to the current
\* time, the request ends in the soft "invalid or past datetime" outcome,
\* refreshAccessToken and createEvent are not called, and no payload whose
\* start is not strictly in the future is sent.
C1_PastDatetimeRejected ==
    /\ (Extracted /\ PastOrNow(gpt_data.fields.datetime)) =>
          /\ ~Called("refreshAccessToken")
          /\ ~Called("createEvent")
          /\ pc = "done" => response = InvalidOrPast
    /\ \A i \in 1..Len(sent) : InstantOf(sent[i].start.dateTime) > now

\* C2: when the extracted datetime is null or absent, whatever the title
\* and the color, the request ends with a 200 response of the text/error
\* shape carrying the transcript and the "invalid or past datetime" error,
\* and refreshAccessToken and createEvent are not called.
C2_NullDatetimeIsSoft ==
    (Extracted /\ gpt_data.fields.datetime.kind \in {"null", "absent"}) =>
        /\ ~Called("refreshAccessToken")
        /\ ~Called("createEvent")
        /\ sent = <<>>
        /\ pc \in {"Extracted", "done"}
        /\ pc = "done" =>
              /\ response.status = 200
              /\ response.keys = {"text", "error"}
              /\ response.text = text
              /\ text \in TextSamples
              /\ response.error = "Invalid or past datetime in input"

C2_Witness ==
    /\ pc = "done"
    /\ Extracted
    /\ gpt_data.fields.datetime.kind = "null"
    /\ gpt_data.fields.title = JStr("lunch with sam")
    /\ gpt_data.fields.color = JStr(<<"#","0","0","0","0","f","f">>)
    /\ response = InvalidOrPast

\* C3: a request whose Authorization value differs from the configured
\* secret ends in 401 and makes no collaborator call at all.
C3_UnauthorizedCallsNothing ==
    authorization # "defaultpass" =>
        /\ calls = <<>>
        /\ sent = <<>>
        /\ pc \in {"Received", "done"}
        /\ pc = "done" => response.status = 401 /\ response.keys = {}

C3_Witness ==
    pc = "done" /\ authorization = "wrongpass" /\ response.status = 401

AllowList == {"audio/wav", "audio/x-wav", "audio/flac", "audio/mpeg", "audio/mp3"}

\* C4: an authorized request whose declared media type is outside the
\* allow-list ends in 400 without any collaborator call, and a type inside
\* the allow-list passes the check: the request goes on to read the audio.
C4_MediaTypeAllowList ==
    authorization = "defaultpass" =>
        /\ content_type \notin AllowList =>
              /\ calls = <<>>
              /\ sent = <<>>
              /\ pc \in {"Received", "Authorized", "done"}
              /\ pc = "done" => response.status = 400 /\ response.keys = {}
        /\ content_type \in AllowList =>
              /\ pc = "done" => response.status # 400 /\ Called("read")
              /\ pc \notin {"Received", "Authorized", "AudioValidated"} =>
                    Called("read")

C4_Witness ==
    /\ pc = "done"
    /\ authorization = "defaultpass"
    /\ content_type = "video/mp4"
    /\ response.status = 400

PassedChecks == authorization = "defaultpass" /\ content_type \in AllowList

BodyShapes == {{"text", "error"}, {"text", "parsed", "calendar_event"}}

\* C5 as claimed: every request that passes the authorization check and
\* the media-type check ends with a 200 response of the text/error or the
\* text/parsed/calendar_event shape, whatever the collaborators do.
C5_Always200 ==
    (pc = "done" /\ PassedChecks) =>
        response.status = 200 /\ response.keys \in BodyShapes

\* C5, amended: every request that passes the two checks ends either with
\* a 200 response of the text/error or the text/parsed/calendar_event
\* shape, or as an unhandled failure (an exception leaves the handler and
\* no body of either shape is returned); it never ends in 401 or 400.
C5_200OrUnhandled ==
    (pc = "done" /\ PassedChecks) =>
        \/ response.status = 200 /\ response.keys \in BodyShapes
        \/ /\ response.status = 500
           /\ response.keys = {}
           /\ response.detail \in {"CouldntDecodeError", "ValueError", "APIError",
                                   "JSONDecodeError", "AttributeError", "HTTPError"}

C5_Witness ==
    /\ pc = "done"
    /\ PassedChecks
    /\ response.status = 500
    /\ response.detail = "HTTPError"
    /\ calls[Len(calls)] = "refreshAccessToken"

\* the palette as the specification gives it: slot identifiers in
\* definition order, with the red, green and blue of each
SlotIds == <<"1", "2", "3", "4", "5", "6", "7", "8", "9", "10", "11">>

SlotRGB ==
    << <<164, 189, 252>>, <<122, 231, 191>>, <<219, 173, 255>>,
       <<255, 136, 124>>, <<251, 215, 91>>, <<255, 184, 120>>,
       <<70, 214, 219>>, <<225, 225, 225>>, <<84, 132, 237>>,
       <<81, 183, 73>>, <<220, 33, 39>> >>

\* a string of exactly six hexadecimal digits after at most one "#"
SixHexDigits(s) ==
    LET h == IF Len(s) > 0 /\ s[1] = "#" THEN Tail(s) ELSE s
    IN  Len(h) = 6 /\ \A i \in 1..6 : IsHex(h[i])

\* the red, green and blue such a string denotes
RGBOf(s) ==
    LET h == IF s[1] = "#" THEN Tail(s) ELSE s
    IN  [k \in 1..3 |-> 16 * HexDigits[h[2 * k - 1]] + HexDigits[h[2 * k]]]

SquaredDistance(p, q) ==
    (p[1] - q[1]) ^ 2 + (p[2] - q[2]) ^ 2 + (p[3] - q[3]) ^ 2

\* slot k is at minimal distance from rgb, and is the first such slot
FirstNearest(rgb, k) ==
    /\ \A j \in 1..11 :
          SquaredDistance(rgb, SlotRGB[k]) <= SquaredDistance(rgb, SlotRGB[j])
    /\ \A j \in 1..(k - 1) :
          SquaredDistance(rgb, SlotRGB[k]) < SquaredDistance(rgb, SlotRGB[j])

\* C6: for every input of six hexadecimal digits, the resolver returns the
\* identifier of a palette entry at minimal Euclidean distance from the
\* input, and among several such entries the first in definition order.
C6_NearestFirstInPaletteOrder ==
    (pc = "resolver" /\ SixHexDigits(resolverIn)) =>
        \A n \in 1..Len(resolverOut) :
            /\ ~resolverOut[n].raised
            /\ \E k \in 1..11 :
                  /\ resolverOut[n].val = SlotIds[k]
                  /\ FirstNearest(RGBOf(resolverIn), k)

\* #8e5c7d is as far from slot 4 as from slot 10, and nearer to no other
C6_Witness ==
    /\ pc = "resolver"
    /\ resolverIn = <<"#","8","e","5","c","7","d">>
    /\ SquaredDistance(RGBOf(resolverIn), SlotRGB[4])
          = SquaredDistance(RGBOf(resolverIn), SlotRGB[10])
    /\ Len(resolverOut) = 1
    /\ resolverOut[1].val = "4"

ExtractedColorGiven ==
    gpt_data.fields.color.kind = "str" /\ gpt_data.fields.color.val # <<>>

\* C7: a null or empty color resolves as "#008080" does: in every created
\* event whose extracted color is null, absent or empty the colorId is the
\* slot nearest to #008080, and otherwise it is the slot nearest to the
\* extracted color.
C7_DefaultColorIsTeal ==
    \A i \in 1..Len(sent) :
        /\ ~ExtractedColorGiven =>
              /\ sent[i].colorId = get_nearest_color_id(<<"#","0","0","8","0","8","0">>).val
              /\ \E k \in 1..11 : /\ sent[i].colorId = SlotIds[k]
                                  /\ FirstNearest(<<0, 128, 128>>, k)
        /\ ExtractedColorGiven =>
              sent[i].colorId = get_nearest_color_id(gpt_data.fields.color.val).val

C7_Witness ==
    /\ pc = "done"
    /\ response.status = 200
    /\ Len(sent) = 1
    /\ gpt_data.fields.color.kind = "null"
    /\ sent[1].colorId = "10"

C9_SummaryDefaultsToNoTitle ==
    \A i \in 1..Len(sent) :
        /\ sent[i].summary # ""
        /\ sent[i].summary =
              IF gpt_data.fields.title.kind = "str" /\ gpt_data.fields.title.val # ""
              THEN gpt_data.fields.title.val
              ELSE "No Title"

C9_Witness ==
    /\ Len(sent) = 1
    /\ gpt_data.fields.title = JStr("")
    /\ sent[1].summary = "No Title"

\* C10: in every event payload sent to the calendar backend, start and end
\* are identical: the same dateTime and the same timeZone.
C10_StartEqualsEnd ==
    \A i \in 1..Len(sent) :
        /\ sent[i].start.dateTime = sent[i].end.dateTime
        /\ sent[i].start.timeZone = sent[i].end.timeZone

C10_Witness ==
    /\ Len(sent) = 1
    /\ sent[1].start.dateTime = [fmt |-> "aware", wall |-> 118800, off |-> 0 - 18000]
    /\ sent[1].end.timeZone = "America/New_York"

\* C11: a response of the text/parsed/calendar_event shape is returned
\* exactly when createEvent was called and succeeded, and it carries the
\* transcript that transcribe returned, the extractor's record as the
\* extractor gave it, and the confirmation that createEvent returned.
C11_SuccessResponse ==
    /\ response.keys = {"text", "parsed", "calendar_event"}
          <=> (pc = "done" /\ Called("createEvent") /\ event_result # "")
    /\ response.keys = {"text", "parsed", "calendar_event"} =>
          /\ response.status = 200
          /\ response.text = text
          /\ text \in TextSamples
          /\ Len(content) = 1
          /\ content[1].t = "obj"
          /\ response.parsed = [shape |-> "dict", fields |-> content[1].fields]
          /\ response.calendar_event = event_result
          /\ event_result \in ConfirmationSamples

C11_Witness ==
    /\ pc = "done"
    /\ Called("createEvent")
    /\ response.keys = {"text", "parsed", "calendar_event"}
    /\ response.parsed.fields.title.kind = "null"
    /\ response.parsed.fields.color.kind = "absent"
    /\ sent[1].summary = "No Title"
    /\ response.calendar_event = "event-1"

\* the offset of New York in 2024: four hours behind UTC from March 10 to
\* November 3, five hours otherwise (the sampled readings are days away
\* from both changes)
ExpectedOffset(wall) ==
    IF 70 * 86400 <= wall /\ wall < 307 * 86400 THEN 0 - 14400 ELSE 0 - 18000

\* C12: for an extracted datetime that is in the future and has no offset,
\* the start sent to the calendar backend has the wall-clock date and time
\* of the extracted value, carries the offset of America/New_York for that
\* reading, and names that timezone.
C12_StartIsLocalizedWallClock ==
    \A i \in 1..Len(sent) :
        (gpt_data.fields.datetime.val.fmt = "naive"
            /\ ExtractedInstant(gpt_data.fields.datetime) > now) =>
            /\ sent[i].start.dateTime.fmt = "aware"
            /\ sent[i].start.dateTime.wall = gpt_data.fields.datetime.val.wall
            /\ sent[i].start.dateTime.off
                  = ExpectedOffset(gpt_data.fields.datetime.val.wall)
            /\ sent[i].start.timeZone = "America/New_York"

C12_Witness ==
    /\ Len(sent) = 1
    /\ now = 72000
    /\ gpt_data.fields.datetime
          = JStr([fmt |-> "naive", wall |-> 15768000, off |-> 0])
    /\ sent[1].start.dateTime
          = [fmt |-> "aware", wall |-> 15768000, off |-> 0 - 14400]

CallOrder ==
    <<"read", "transcode", "transcribe", "extract", "refreshAccessToken",
      "createEvent">>

\* calls[i] comes before calls[j] in CallOrder whenever i < j
InCallOrder ==
    \A i, j \in 1..Len(calls) :
        i < j => \E a, b \in 1..Len(CallOrder) :
                    a < b /\ CallOrder[a] = calls[i] /\ CallOrder[b] = calls[j]

\* C13: the steps are taken in the order of the pipeline's states:
\* refreshAccessToken is called only after the extracted datetime has been
\* parsed and accepted (a civil datetime strictly in the future), and
\* createEvent only after refreshAccessToken succeeded.
C13_StepsInOrder ==
    /\ InCallOrder
    /\ Called("refreshAccessToken") =>
          /\ start_dt.ok
          /\ ~start_dt.aware
          /\ start_dt.wall - NYOffset(start_dt.wall) > now
    /\ Called("createEvent") => access_token \in TokenSamples

\* C14: a request ends as an unhandled failure only if a collaborator
\* failed: the codec or the reader of the audio, transcribe, extract (an
\* error, or a content that is no JSON object), refreshAccessToken or
\* createEvent; never because of the datetime or the color of the record.
C14_OnlyCollaboratorFailuresUnhandled ==
    (pc = "done" /\ response.status = 500) =>
        \/ response.detail \in {"CouldntDecodeError", "APIError",
                                "JSONDecodeError", "AttributeError", "HTTPError"}
        \/ response.detail = "ValueError" /\ ~Called("transcribe")

\* the content, once its fence is gone, is not one JSON object
MalformedContent == Len(content) # 1 \/ content[1].t # "obj"

\* C15: when the extractor's response is not a JSON object (it is not
\* JSON, or it is JSON of another shape), the request ends as an unhandled
\* failure, never in a 200 response, and refreshAccessToken and createEvent
\* are not called.
C15_MalformedExtractionFails ==
    (Called("extract") /\ MalformedContent) =>
        /\ ~Called("refreshAccessToken")
        /\ ~Called("createEvent")
        /\ sent = <<>>
        /\ pc \in {"Extracted", "done"}
        /\ pc = "done" => response.status = 500 /\ response.keys = {}

C15_Witness ==
    /\ pc = "done"
    /\ Called("extract")
    /\ content = <<[t |-> "arr", fields |-> NoFields]>>
    /\ response.status = 500
    /\ response.detail = "AttributeError"

\* C16: when transcription fails (speech not recognized, or the service
\* unavailable), the request ends with a 200 response whose text is empty
\* and whose error describes the failure, and extract, refreshAccessToken
\* and createEvent are never called; they are called only with a
\* transcript.
C16_TranscriptionFailureIsSoft ==
    /\ (Called("transcribe") /\ pc = "done" /\ text = "") =>
          /\ response.status = 200
          /\ response.keys = {"text", "error"}
          /\ response.text = ""
          /\ response.error \in {"Could not understand audio",
                                 "Speech Recognition service error"}
          /\ calls[Len(calls)] = "transcribe"
    /\ (Called("extract") \/ Called("refreshAccessToken") \/ Called("createEvent"))
          => text \in TextSamples

C16_Witness ==
    /\ pc = "done"
    /\ calls = <<"read", "transcode", "transcribe">>
    /\ response.text = ""
    /\ response.error = "Speech Recognition service error"

\* C17: each collaborator is called at most once in a request, and a
\* failed refreshAccessToken or createEvent is the last call of the
\* request, which ends as an unhandled failure; createEvent is never
\* called after a failed token refresh.
C17_NoRetryAfterFailure ==
    /\ \A i, j \in 1..Len(calls) : calls[i] = calls[j] => i = j
    /\ Called("createEvent") => access_token \in TokenSamples
    /\ (Called("refreshAccessToken") /\ access_token = "") =>
          /\ pc = "done"
          /\ response.status = 500
          /\ calls[Len(calls)] = "refreshAccessToken"
    /\ (Called("createEvent") /\ event_result = "") =>
          /\ pc = "done"
          /\ response.status = 500
          /\ calls[Len(calls)] = "createEvent"

C17_Witness ==
    /\ pc = "done"
    /\ calls = <<"read", "transcribe", "extract", "refreshAccessToken",
                 "createEvent">>
    /\ event_result = ""
    /\ response.status = 500

\* C18: a content that is a JSON record between two code-fence lines is
\* handled like the record alone: call_gpt returns the parsed record and
\* the request does not fail at parsing.
C18_FencedParsedLikeUnfenced ==
    (Called("extract") /\ Len(content) = 1 /\ content[1].t = "obj") =>
        /\ gpt_data = [shape |-> "dict", fields |-> content[1].fields]
        /\ response.detail # "JSONDecodeError"

\* calls[i] = c for the first such i, 0 when there is none
IndexOf(c) ==
    IF Called(c) THEN CHOOSE i \in 1..Len(calls) : calls[i] = c ELSE 0

\* C19: the audio is transcoded exactly when its declared type is an
\* allowed type other than audio/wav and audio/x-wav, and then before
\* transcribe is called, which is not called when transcoding fails; audio
\* of the two wav types reaches transcribe without transcoding.
C19_TranscodeUnlessWav ==
    /\ Called("transcode") <=>
          (Called("read") /\ content_type \in {"audio/flac", "audio/mpeg", "audio/mp3"})
    /\ transcoded <=> Called("transcode")
    /\ Called("transcribe") =>
          /\ content_type \in {"audio/wav", "audio/x-wav"} =>
                ~transcoded /\ IndexOf("transcode") = 0
          /\ content_type \notin {"audio/wav", "audio/x-wav"} =>
                /\ 0 < IndexOf("transcode")
                /\ IndexOf("transcode") < IndexOf("transcribe")
    /\ response.detail = "CouldntDecodeError" => ~Called("transcribe")

C19_Witness ==
    /\ content_type = "audio/mp3"
    /\ transcoded
    /\ pc = "Transcribed"
    /\ calls = <<"read", "transcode", "transcribe">>

====
